---- MODULE Spec2Model ----
(***************************************************************************)
(* The chat-completion orchestrator chatRequest of the notate Electron     *)
(* backend, as a state machine: one action per await point (collaborator   *)
(* call) of the function, the synchronous persistence block and the return *)
(* as one step.  Collaborators (db, generateTitle, vectorstoreQuery, the   *)
(* provider adapters) are the environment: each call nondeterministically  *)
(* raises or returns one of a small set of values.  The sub-agent          *)
(* anthropicAgent of the same backend is a second state machine, AgentSpec, *)
(* over its own variables; PairSpec runs two chatRequest calls over one    *)
(* database.                                                               *)
(***************************************************************************)
EXTENDS Integers, Sequences, FiniteSets, TLC

VARIABLES
    pc,             \* position of the request inside chatRequest
    messages,       \* argument messages: Message[]
    conversationId, \* argument conversationId, reassigned at line 142
    argConversationId, \* the conversationId the caller passed
    title,          \* argument title
    collectionId,   \* argument collectionId
    signal,         \* argument signal: "absent", "idle" or "aborted"
    platform,       \* os.platform()
    currentTitle,   \* local currentTitle
    userSettings,   \* local userSettings
    settingsRead,   \* what db.getUserSettings resolved with
    collectionName, \* local collectionName
    vectorstoreData, \* local vectorstoreData: what the query resolved with
    data,           \* local data: <<>> is null, <<d>> holds d
    generatedTitle, \* what generateTitle resolved with
    storedTitle,    \* what db.getUserConversationTitle resolved with
    failure,        \* <<[fn, error]>> once the call of collaborator fn raised
    prompt,         \* local prompt
    provider,       \* local provider (the adapter selected by the switch)
    providerArgs,   \* the arguments the adapter was invoked with
    result,         \* local result (the adapter's ProviderResponse)
    ret,            \* the value chatRequest resolved with
    caught,         \* <<e>> once the outer catch caught error e
    calls,          \* collaborator calls made so far, in order
    convRows,       \* rows written by db.addUserConversation
    msgRows,        \* rows written by db.addUserMessage
    retrRows,       \* rows written by db.addRetrievedData
    agentPc,        \* position of the call inside anthropicAgent
    agentMessages,  \* anthropicAgent's argument messages
    maxOutputTokens, \* anthropicAgent's argument maxOutputTokens
    createArgs,     \* the request given to anthropic.messages.create
    response,       \* local response: what messages.create resolved with
    agentActions,   \* local agentActions
    webSearchResult, \* local webSearchResult: <<>> is null, <<r>> holds r
    searchError,    \* <<e>> once webSearch raised e
    chunks,         \* sendMessageChunk calls so far: [text, delivered]
    fetches,        \* urls webSearch was called with, in order
    agentRet,       \* the value anthropicAgent resolved with
    agentThrown,    \* <<e>> once anthropicAgent rejected with e
    reqs,           \* two concurrent chatRequest calls: the locals of each
    db,             \* the database the two calls share: convs, msgs, retr
    writeLog        \* the writes to db so far, in order: [req, table, id]

\* the arguments and the host, which no step changes
inputs == <<messages, title, collectionId, platform, argConversationId>>

\* the state of a chatRequest call
chatVars == <<pc, inputs, conversationId, signal, currentTitle, userSettings,
              settingsRead,
              collectionName, vectorstoreData, data, generatedTitle, storedTitle,
              failure, prompt, provider, providerArgs, result, ret, caught, calls,
              convRows, msgRows, retrRows>>

\* the state of an anthropicAgent call
agentVars == <<agentPc, agentMessages, maxOutputTokens, createArgs, response,
               agentActions, webSearchResult, searchError, chunks, fetches,
               agentRet, agentThrown>>

\* the state of two chatRequest calls in flight over one database
pairVars == <<reqs, db, writeLog>>

vars == <<chatVars, agentVars, pairVars>>

(***************************************************************************)
(* Bounds of the model.                                                    *)
(***************************************************************************)
MaxMsgs == 1
MaxResults == 1

(***************************************************************************)
(* JavaScript values.  Optional numbers are tagged records, optional       *)
(* strings use two reserved strings for null and undefined.                *)
(***************************************************************************)
Undef == [tag |-> "undefined", v |-> 0]
NaN == [tag |-> "NaN", v |-> 0]
Num(n) == [tag |-> "number", v |-> n]

Null == "<null>"
Undefined == "<undefined>"

\* !x for an optional number: undefined, NaN and 0 are falsy
TruthyNum(x) == x.tag = "number" /\ x.v # 0

\* !s for an optional string: null, undefined and "" are falsy
TruthyStr(s) == s \notin {Null, Undefined, ""}

\* Number(x)
ToNumber(x) == IF x.tag = "number" THEN x ELSE NaN

Min(a, b) == IF a < b THEN a ELSE b

TitleLen == 20

\* s.substring(0, 20)
Substring20(s) == SubSeq(s, 1, Min(TitleLen, Len(s)))

\* s.includes(d)
Includes(s, d) ==
    \E i \in 1..(Len(s) - Len(d) + 1) : SubSeq(s, i, i + Len(d) - 1) = d

\* `${error}`: String(error) of an Error is "<name>: <message>"
ErrToString(e) == e.name \o ": " \o e.message

MkError(n, m, c) == [isError |-> TRUE, name |-> n, message |-> m, code |-> c]

TypeErrorOf(prop) ==
    MkError("TypeError",
            "Cannot read properties of undefined (reading '" \o prop \o "')", "")

activeUser == [id |-> 1, name |-> "alice"]

(***************************************************************************)
(* Inputs and collaborator outcomes.                                       *)
(***************************************************************************)
LongText == "Explain quantum entanglement in simple terms please"
Contents == {"", "Hi there", LongText}

Msg(r, c) ==
    [role |-> r, content |-> c, reasoning_content |-> Undefined,
     data_content |-> Undefined]

RECURSIVE History(_)
\* n earlier turns of a conversation, alternating user / assistant, ending
\* with an assistant turn
History(n) ==
    IF n = 0 THEN <<>>
    ELSE Append(History(n - 1),
                IF n % 2 = 1 THEN Msg("assistant", "Sure.")
                ELSE Msg("user", "Hello"))

\* conversations of 1..MaxMsgs user turns, the last one with any content: the
\* caller always passes the turn it asks about as the last message
InputMessages ==
    {History(2 * (n - 1)) \o <<Msg("user", c)>> : n \in 1..MaxMsgs, c \in Contents}

\* the id db.addUserConversation assigns to the row it inserts
NewConvId == 101

InputConversationIds == {Undef, Num(0), Num(7)}
InputTitles == {Undefined, "", "My Title"}
InputCollectionIds == {Undef, Num(3)}
Platforms == {"darwin", "win32", "linux"}

\* Errors a collaborator may raise (two, with different texts)
CollabErrors ==
    {MkError("Error", "401 Incorrect API key provided: sk-secret", ""),
     MkError("Error", "connect ECONNREFUSED 127.0.0.1:47372", "ECONNREFUSED")}

ForeignKeyError ==
    MkError("SqliteError", "FOREIGN KEY constraint failed",
            "SQLITE_CONSTRAINT_FOREIGNKEY")

\* Errors a persistence write may raise: the foreign-key error, another
\* SqliteError, and an Error without a code property (code "")
DbErrors ==
    {ForeignKeyError,
     MkError("SqliteError", "database is locked", "SQLITE_BUSY"),
     MkError("Error", "disk I/O error", "")}

Providers == {"OpenAI", "bogus", Undefined}
Temperatures == {Undef, Num(0), Num(7)}   \* in tenths

SettingsSet ==
    {[provider |-> p, model |-> "gpt-4o", promptId |-> Num(1), temperature |-> t] :
        p \in Providers, t \in Temperatures}

NoSettings == [provider |-> Undefined, model |-> Undefined, promptId |-> Undef,
               temperature |-> Undef]
NoCollectionName == [found |-> FALSE, name |-> Undefined]
NoResponse == [status |-> "pending"]
NoResult == [pending |-> TRUE]
NoArgs == [pending |-> TRUE]
NotReturned == [pending |-> TRUE]

\* anthropicAgent has not been called
AgentIdle ==
    /\ agentPc = "idle"
    /\ agentMessages = <<>>
    /\ maxOutputTokens = 0
    /\ createArgs = NoArgs
    /\ response = NoResponse
    /\ agentActions = NoResult
    /\ webSearchResult = <<>>
    /\ searchError = <<>>
    /\ chunks = <<>>
    /\ fetches = <<>>
    /\ agentRet = NotReturned
    /\ agentThrown = <<>>

\* no pair of concurrent calls
PairIdle ==
    /\ reqs = <<>>
    /\ db = [convs |-> <<>>, msgs |-> <<>>, retr |-> <<>>]
    /\ writeLog = <<>>

Init ==
    /\ AgentIdle
    /\ PairIdle
    /\ pc = "start"
    /\ messages \in InputMessages
    /\ conversationId \in InputConversationIds
    /\ argConversationId = conversationId
    /\ title \in InputTitles
    /\ collectionId \in InputCollectionIds
    /\ signal \in {"absent", "idle"}
    /\ platform \in Platforms
    /\ currentTitle = Null
    /\ userSettings = NoSettings
    /\ settingsRead = NoSettings
    /\ collectionName = NoCollectionName
    /\ vectorstoreData = NoResponse
    /\ data = <<>>
    /\ generatedTitle = Undefined
    /\ storedTitle = Undefined
    /\ failure = <<>>
    /\ prompt = Undefined
    /\ provider = Undefined
    /\ providerArgs = NoArgs
    /\ result = NoResult
    /\ ret = NotReturned
    /\ caught = <<>>
    /\ calls = <<>>
    /\ convRows = <<>>
    /\ msgRows = <<>>
    /\ retrRows = <<>>

(***************************************************************************)
(* The three error envelopes.                                              *)
(***************************************************************************)
HomeDir == "/home/alice"

\* the log path of lines 90-95
LogPath(pf) ==
    IF pf = "darwin" THEN HomeDir \o "/Library/Application Support/notate/main.log"
    ELSE IF pf = "win32" THEN HomeDir \o "/AppData/Roaming/notate/main.log"
    ELSE HomeDir \o "~/.config/notate/main.log"

RemediationContent(pf) ==
    "There is an issue with the SECRET_KEY not being in sync across the front/backend.\n\n"
    \o "Please try the following steps:\n"
    \o "1. Restart your PC\n"
    \o "2. If the issue persists, check your logs at:\n"
    \o "   " \o LogPath(pf) \o "\n\n"
    \o "3. Open a GitHub issue at https://github.com/CNTRLAI/notate and include your logs"

GenericContent == "Please add an API key and select an AI Model in Settings."

\* lines 82-105: the return of the Unauthorized branch
UnauthorizedEnvelope(msgs, pf) ==
    [id |-> -1,
     messages |-> Append(msgs, Msg("assistant", RemediationContent(pf))),
     title |-> "Need API Key"]

\* lines 115-126: the return of the inner catch
VectorstoreErrorEnvelope(msgs, e) ==
    [id |-> -1,
     messages |-> Append(msgs, Msg("assistant",
                                   "Error in vectorstore query: " \o ErrToString(e))),
     title |-> "Error in vectorstore query"]

\* GenericEnvelope that puts the caught error in the message
GenericEnvelopeLeaking(msgs, e) ==
    [id |-> -1,
     messages |-> Append(msgs, Msg("assistant", ErrToString(e))),
     title |-> "Need API Key"]

\* lines 264-275: the return of the outer catch
GenericEnvelope(msgs, e) ==
    [id |-> -1,
     messages |-> Append(msgs, Msg("assistant", GenericContent)),
     title |-> "Need API Key"]

\* messages[messages.length - 1].content, where messages is not empty
LastContent(msgs) == msgs[Len(msgs)].content

\* the call of collaborator fn raises e
Raises(fn, e) == failure' = <<[fn |-> fn, error |-> e]>>

\* an error raised inside the outer try: lines 261-276
OuterCatch(e) ==
    /\ pc' = "done"
    /\ caught' = <<e>>
    /\ ret' = GenericEnvelope(messages, e)

\* a return from inside the try block
Return(envelope) ==
    /\ pc' = "done"
    /\ ret' = envelope
    /\ UNCHANGED caught

Goto(label) ==
    /\ pc' = label
    /\ UNCHANGED <<ret, caught>>

(***************************************************************************)
(* Which await comes next: the conditions of lines 53, 68, 130 and 137.    *)
(***************************************************************************)
\* PcAfterTitleLookup that never creates a conversation
PcAfterTitleLookupNoCreate(conv) == "getUserPrompt"

\* PcAfterTitleLookup that creates a conversation whatever the caller supplied
PcAfterTitleLookupAlwaysCreate(conv) == "addUserConversation"

PcAfterTitleLookup(conv) ==
    IF ~TruthyNum(conv) THEN "addUserConversation" ELSE "getUserPrompt"

PcAfterRetrieval(conv, cur) ==
    IF ~TruthyStr(cur) THEN "getUserConversationTitle" ELSE PcAfterTitleLookup(conv)

PcAfterTitle(conv, cur, coll) ==
    IF TruthyNum(coll) THEN "getCollectionName" ELSE PcAfterRetrieval(conv, cur)

\* PcAfterSettings without the test of conversationId
PcAfterSettingsAnyConversation(conv, cur, coll) ==
    IF cur = Null THEN "generateTitle"
    ELSE PcAfterTitle(conv, cur, coll)

PcAfterSettings(conv, cur, coll) ==
    IF ~TruthyNum(conv) /\ cur = Null THEN "generateTitle"
    ELSE PcAfterTitle(conv, cur, coll)

(***************************************************************************)
(* Lines 51-52: currentTitle = title || null; await db.getUserSettings     *)
(***************************************************************************)
\* line 51
TitleOrNull(t) == IF TruthyStr(t) THEN t ELSE Null

GetUserSettings ==
    /\ pc = "start"
    /\ currentTitle' = TitleOrNull(title)
    /\ calls' = Append(calls, "getUserSettings")
    /\ \/ \E e \in CollabErrors :
            /\ Raises("getUserSettings", e)
            /\ OuterCatch(e)
            /\ UNCHANGED <<userSettings, settingsRead>>
       \/ \E s \in SettingsSet :
            /\ userSettings' = s
            /\ settingsRead' = s
            /\ Goto(PcAfterSettings(conversationId, currentTitle', collectionId))
            /\ UNCHANGED failure
    /\ UNCHANGED <<pairVars, agentVars, inputs, conversationId, signal, collectionName, vectorstoreData,
                   data, generatedTitle, storedTitle, prompt, provider,
                   providerArgs, result, convRows, msgRows, retrRows>>

GeneratedTitles == {"Quantum Basics", ""}

(***************************************************************************)
(* Lines 53-59: currentTitle = await generateTitle(last content, ...)      *)
(***************************************************************************)
GenerateTitle ==
    /\ pc = "generateTitle"
    /\ calls' = Append(calls, "generateTitle")
    /\ \/ \E e \in CollabErrors :
            /\ Raises("generateTitle", e)
            /\ OuterCatch(e)
            /\ UNCHANGED <<currentTitle, generatedTitle>>
       \/ \E t \in GeneratedTitles :
            /\ currentTitle' = t
            /\ generatedTitle' = t
            /\ Goto(PcAfterTitle(conversationId, t, collectionId))
            /\ UNCHANGED failure
    /\ UNCHANGED <<pairVars, agentVars, inputs, settingsRead, conversationId, signal, userSettings, collectionName,
                   vectorstoreData, data, storedTitle, prompt, provider,
                   providerArgs, result, convRows, msgRows, retrRows>>

(***************************************************************************)
(* Lines 68-70: await db.getCollectionName(Number(collectionId))           *)
(***************************************************************************)
GetCollectionName ==
    /\ pc = "getCollectionName"
    /\ calls' = Append(calls, "getCollectionName")
    /\ \/ \E e \in CollabErrors :
            /\ Raises("getCollectionName", e)
            /\ OuterCatch(e)
            /\ UNCHANGED collectionName
       \/ \E c \in {NoCollectionName, [found |-> TRUE, name |-> "docs"]} :
            /\ collectionName' = c
            /\ Goto("vectorstoreQuery")
            /\ UNCHANGED failure
    /\ UNCHANGED <<pairVars, agentVars, inputs, settingsRead, conversationId, signal, currentTitle, userSettings,
                   vectorstoreData, data, generatedTitle, storedTitle, prompt,
                   provider, providerArgs, result, convRows, msgRows, retrRows>>

(***************************************************************************)
(* Lines 71-127: the vector store query and the handling of its response.  *)
(***************************************************************************)
StoreResults(n) == [i \in 1..n |-> [content |-> "passage", metadata |-> "doc.pdf"]]

\* what vectorstoreQuery may resolve with: RetrievalResult | {status, message}
QueryResponses ==
    {[status |-> "error", message |-> m] : m \in {"Unauthorized", "Collection not found"}}
    \cup {[status |-> "success", results |-> StoreResults(n)] : n \in 0..MaxResults}

\* IsUnauthorized comparing against the wrong spelling of the message
IsUnauthorizedWrongCase(resp) ==
    resp.status = "error" /\ resp.message = "unauthorized"

\* lines 80-81
IsUnauthorized(resp) == resp.status = "error" /\ resp.message = "Unauthorized"

\* line 110 reads vectorstoreData.results.length: a TypeError when the
\* response carries no results
HasResults(resp) == "results" \in DOMAIN resp

\* MkData with top_k taken from the bound of the query instead of the number
\* of passages the store returned
MkDataRequestedK(resp) == [top_k |-> MaxResults, results |-> resp.results]

\* lines 109-112
MkData(resp) == [top_k |-> Len(resp.results), results |-> resp.results]

VectorstoreQuery ==
    /\ pc = "vectorstoreQuery"
    /\ \/ /\ ~collectionName.found       \* line 77 raises inside the inner try
          /\ Return(VectorstoreErrorEnvelope(messages, TypeErrorOf("name")))
          /\ UNCHANGED <<vectorstoreData, data, calls, failure>>
       \/ /\ collectionName.found
          /\ calls' = Append(calls, "vectorstoreQuery")
          /\ \/ \E e \in CollabErrors :
                  /\ Raises("vectorstoreQuery", e)
                  /\ Return(VectorstoreErrorEnvelope(messages, e))
                  /\ UNCHANGED <<vectorstoreData, data>>
             \/ \E resp \in QueryResponses :
                  /\ vectorstoreData' = resp
                  /\ UNCHANGED failure
                  /\ IF IsUnauthorized(resp)
                     THEN /\ Return(UnauthorizedEnvelope(messages, platform))
                          /\ UNCHANGED data
                     ELSE IF ~HasResults(resp)
                     THEN /\ Return(VectorstoreErrorEnvelope(messages,
                                                             TypeErrorOf("length")))
                          /\ UNCHANGED data
                     ELSE /\ data' = <<MkData(resp)>>
                          /\ Goto(PcAfterRetrieval(conversationId, currentTitle))
    /\ UNCHANGED <<pairVars, agentVars, inputs, settingsRead, conversationId, signal, currentTitle, userSettings,
                   collectionName, generatedTitle, storedTitle, prompt, provider,
                   providerArgs, result, convRows, msgRows, retrRows>>

(***************************************************************************)
(* Lines 130-135: await db.getUserConversationTitle(Number(conversationId))*)
(***************************************************************************)
\* the conversation store holds one conversation, id 7, with or without a title
StoredTitles(id) == IF id = Num(7) THEN {"Old chat", Null} ELSE {Null}

GetUserConversationTitle ==
    /\ pc = "getUserConversationTitle"
    /\ calls' = Append(calls, "getUserConversationTitle")
    /\ \/ \E e \in CollabErrors :
            /\ Raises("getUserConversationTitle", e)
            /\ OuterCatch(e)
            /\ UNCHANGED <<currentTitle, storedTitle>>
       \/ \E t \in StoredTitles(ToNumber(conversationId)) :
            /\ currentTitle' = t
            /\ storedTitle' = t
            /\ Goto(PcAfterTitleLookup(conversationId))
            /\ UNCHANGED failure
    /\ UNCHANGED <<pairVars, agentVars, inputs, settingsRead, conversationId, signal, userSettings, collectionName,
                   vectorstoreData, data, generatedTitle, prompt, provider,
                   providerArgs, result, convRows, msgRows, retrRows>>

(***************************************************************************)
(* Lines 137-143: await db.addUserConversation(activeUser.id, currentTitle)*)
(***************************************************************************)
AddUserConversation ==
    /\ pc = "addUserConversation"
    /\ calls' = Append(calls, "addUserConversation")
    /\ \/ \E e \in CollabErrors :
            /\ Raises("addUserConversation", e)
            /\ OuterCatch(e)
            /\ UNCHANGED <<conversationId, convRows>>
       \/ /\ convRows' = Append(convRows, [id |-> NewConvId, title |-> currentTitle,
                                           owner |-> activeUser.id])
          /\ conversationId' = Num(NewConvId)
          /\ Goto("getUserPrompt")
          /\ UNCHANGED failure
    /\ UNCHANGED <<pairVars, agentVars, inputs, settingsRead, signal, currentTitle, userSettings, collectionName,
                   vectorstoreData, data, generatedTitle, storedTitle, prompt,
                   provider, providerArgs, result, msgRows, retrRows>>

(***************************************************************************)
(* Lines 145-155: await db.getUserPrompt(...), default prompt              *)
(***************************************************************************)
DefaultPrompt == "You are a helpful assistant."

GetUserPrompt ==
    /\ pc = "getUserPrompt"
    /\ calls' = Append(calls, "getUserPrompt")
    /\ \/ \E e \in CollabErrors :
            /\ Raises("getUserPrompt", e)
            /\ OuterCatch(e)
            /\ UNCHANGED prompt
       \/ \E p \in {DefaultPrompt, "Answer briefly."} :
            /\ prompt' = p
            /\ Goto("selectProvider")
            /\ UNCHANGED failure
    /\ UNCHANGED <<pairVars, agentVars, inputs, settingsRead, conversationId, signal, currentTitle, userSettings,
                   collectionName, vectorstoreData, data, generatedTitle,
                   storedTitle, provider, providerArgs, result, convRows, msgRows,
                   retrRows>>

(***************************************************************************)
(* Lines 156-192: the switch on userSettings.provider?.toLowerCase()       *)
(***************************************************************************)
RegisteredKeys ==
    {"openai", "openrouter", "azure open ai", "anthropic", "gemini", "xai",
     "local", "ollama", "custom", "deepseek"}

\* String.prototype.toLowerCase on the provider names of the model
LowerCase(s) == IF s = "OpenAI" THEN "openai" ELSE s

\* userSettings.provider?.toLowerCase()
ProviderKey(settings) ==
    IF settings.provider \in {Null, Undefined} THEN Undefined
    ELSE LowerCase(settings.provider)

NoProviderError ==
    MkError("Error",
            "No AI provider selected. Please open Settings (top right) make sure you add an API key and select a provider under the 'AI Provider' tab.",
            "")

\* SelectProvider without the default branch of the switch
SelectProviderNoDefault ==
    /\ pc = "selectProvider"
    /\ provider' = ProviderKey(userSettings)
    /\ Goto("invokeProvider")
    /\ UNCHANGED <<pairVars, agentVars, inputs, settingsRead, conversationId, signal, currentTitle, userSettings,
                   collectionName, vectorstoreData, data, generatedTitle,
                   storedTitle, failure, prompt, providerArgs, result, calls,
                   convRows, msgRows, retrRows>>

SelectProvider ==
    /\ pc = "selectProvider"
    /\ IF ProviderKey(userSettings) \in RegisteredKeys
       THEN /\ provider' = ProviderKey(userSettings)
            /\ Goto("invokeProvider")
       ELSE /\ OuterCatch(NoProviderError)
            /\ UNCHANGED provider
    /\ UNCHANGED <<pairVars, agentVars, inputs, settingsRead, conversationId, signal, currentTitle, userSettings,
                   collectionName, vectorstoreData, data, generatedTitle,
                   storedTitle, failure, prompt, providerArgs, result, calls,
                   convRows, msgRows, retrRows>>

(***************************************************************************)
(* Lines 193-210: title fallback, temperature default, adapter invoked.    *)
(***************************************************************************)
DefaultTemperature == 5   \* 0.5, in tenths

\* lines 196-198: !temperature is true of undefined and of 0
WithTemperature(settings) ==
    IF ~TruthyNum(settings.temperature)
    THEN [settings EXCEPT !.temperature = Num(DefaultTemperature)]
    ELSE settings

\* FallbackTitle without the truncation
FallbackTitleWhole(cur, msgs) ==
    IF ~TruthyStr(cur) THEN LastContent(msgs) ELSE cur

\* lines 193-195
FallbackTitle(cur, msgs) ==
    IF ~TruthyStr(cur) THEN Substring20(LastContent(msgs)) ELSE cur

InvokeProvider ==
    /\ pc = "invokeProvider"
    /\ currentTitle' = FallbackTitle(currentTitle, messages)
    /\ userSettings' = WithTemperature(userSettings)
    /\ providerArgs' =
         [messages |-> messages, activeUser |-> activeUser,
          userSettings |-> userSettings', prompt |-> prompt,
          conversationId |-> conversationId, title |-> currentTitle',
          collectionId |-> ToNumber(collectionId), data |-> data,
          signal |-> signal]
    /\ calls' = Append(calls, "provider")
    /\ Goto("inflight")
    /\ UNCHANGED <<pairVars, agentVars, inputs, settingsRead, conversationId, signal, collectionName, vectorstoreData,
                   data, generatedTitle, storedTitle, failure, prompt, provider,
                   result, convRows, msgRows, retrRows>>

(***************************************************************************)
(* The caller aborts the AbortSignal it passed, at any time before the     *)
(* request completes.                                                      *)
(***************************************************************************)
Cancel ==
    /\ pc # "done"
    /\ signal = "idle"
    /\ signal' = "aborted"
    /\ UNCHANGED <<pairVars, agentVars, pc, inputs, settingsRead, conversationId, currentTitle, userSettings,
                   collectionName, vectorstoreData, data, generatedTitle,
                   storedTitle, failure, prompt, provider, providerArgs, result,
                   ret, caught, calls, convRows, msgRows, retrRows>>

(***************************************************************************)
(* The adapter settles.  Its contract: ProviderResponse {id, messages      *)
(* including the new assistant turn, title, content, reasoning?, aborted}; *)
(* with the signal aborted it returns aborted = true and the partial       *)
(* content instead of raising; it performs no persistence.                 *)
(***************************************************************************)
FullAnswer == "Entangled particles share one state."
PartialAnswers == {"", "Entangled par"}
Reasonings == {Undefined, "The user wants a simple picture."}

ProviderResponse(args, content, reasoning, aborted) ==
    [id |-> args.conversationId.v,
     messages |-> Append(args.messages,
                         [Msg("assistant", content) EXCEPT !.reasoning_content = reasoning]),
     title |-> args.title,
     content |-> content,
     reasoning |-> reasoning,
     aborted |-> aborted]

ProviderSettle ==
    /\ pc = "inflight"
    /\ \/ /\ signal # "aborted"
          /\ \E e \in CollabErrors :
               /\ Raises("provider", e)
               /\ OuterCatch(e)
               /\ UNCHANGED result
       \/ /\ signal # "aborted"
          /\ \E r \in Reasonings :
               /\ result' = ProviderResponse(providerArgs, FullAnswer, r, FALSE)
               /\ Goto("persist")
               /\ UNCHANGED failure
       \/ /\ signal = "aborted"
          /\ \E c \in PartialAnswers :
               /\ result' = ProviderResponse(providerArgs, c, Undefined, TRUE)
               /\ Goto("persist")
               /\ UNCHANGED failure
    /\ UNCHANGED <<pairVars, agentVars, inputs, settingsRead, conversationId, signal, currentTitle, userSettings,
                   collectionName, vectorstoreData, data, generatedTitle,
                   storedTitle, prompt, provider, providerArgs, calls, convRows,
                   msgRows, retrRows>>

(***************************************************************************)
(* Lines 211-260: the three synchronous writes, the classification of a    *)
(* write's error, and the normal envelope.                                 *)
(***************************************************************************)
RECURSIVE JoinResults(_)
JoinResults(rs) ==
    IF rs = <<>> THEN ""
    ELSE "{\"content\":\"" \o rs[1].content \o "\",\"metadata\":\"" \o rs[1].metadata
         \o "\"}" \o (IF Len(rs) > 1 THEN "," ELSE "") \o JoinResults(Tail(rs))

\* JSON.stringify(data)
Stringify(d) ==
    "{\"top_k\":" \o ToString(d.top_k) \o ",\"results\":[" \o JoinResults(d.results) \o "]}"

\* "code" in error
HasCode(e) == e.code # ""

\* IsForeignKeyError without the comparison of the code: any error that
\* carries a code is swallowed
IsAnyCodedError(e) == e.isError /\ HasCode(e)

\* lines 238-244: the error that is swallowed
IsForeignKeyError(e) ==
    e.isError /\ HasCode(e) /\ e.code = "SQLITE_CONSTRAINT_FOREIGNKEY"

\* lines 213-218
UserRow(rows, conv, msgs) ==
    [id |-> Len(rows) + 1, userId |-> activeUser.id, conversationId |-> ToNumber(conv),
     role |-> "user", content |-> LastContent(msgs), reasoning |-> Undefined,
     collectionId |-> Undef]

\* lines 221-228
AssistantRow(rows, conv, res, coll) ==
    [id |-> Len(rows) + 1, userId |-> activeUser.id, conversationId |-> ToNumber(conv),
     role |-> "assistant", content |-> res.content, reasoning |-> res.reasoning,
     collectionId |-> IF TruthyNum(coll) THEN ToNumber(coll) ELSE Undef]

\* line 232
RetrievedRow(assistantMessageId, d) ==
    [messageId |-> assistantMessageId, data |-> Stringify(d)]

\* the writes of lines 213-233, in order
WriteNames == <<"addUserMessage", "addUserMessage", "addRetrievedData">>

\* line 231: the third write happens only with retrieval data
NumWrites(d) == IF d # <<>> THEN 3 ELSE 2

\* MsgRowsAfter that does not record the assistant turn of an aborted response
MsgRowsAfterSkipAborted(n, rows, conv, msgs, res, coll) ==
    IF n = 0 THEN rows
    ELSE IF n = 1 \/ res.aborted THEN Append(rows, UserRow(rows, conv, msgs))
    ELSE Append(Append(rows, UserRow(rows, conv, msgs)),
                AssistantRow(Append(rows, UserRow(rows, conv, msgs)), conv, res, coll))

\* MsgRowsAfter where the user turn is lost when a later write fails
MsgRowsAfterRollback(n, rows, conv, msgs, res, coll) ==
    IF n < 2 THEN rows
    ELSE Append(Append(rows, UserRow(rows, conv, msgs)),
                AssistantRow(Append(rows, UserRow(rows, conv, msgs)), conv, res, coll))

\* msgRows after the first n writes succeeded
MsgRowsAfter(n, rows, conv, msgs, res, coll) ==
    IF n = 0 THEN rows
    ELSE IF n = 1 THEN Append(rows, UserRow(rows, conv, msgs))
    ELSE Append(Append(rows, UserRow(rows, conv, msgs)),
                AssistantRow(Append(rows, UserRow(rows, conv, msgs)), conv, res, coll))

\* RetrRowsAfter keyed by the id of the user row instead of the assistant row
RetrRowsAfterUserId(n, rrows, rows, d) ==
    IF n = 3 THEN Append(rrows, RetrievedRow(Len(rows) + 1, d[1])) ELSE rrows

\* retrRows after the first n writes succeeded; the assistant row is the
\* second row added to rows (lastInsertRowid)
RetrRowsAfter(n, rrows, rows, d) ==
    IF n = 3 THEN Append(rrows, RetrievedRow(Len(rows) + 2, d[1])) ELSE rrows

\* NormalEnvelope that stamps the reasoning onto every message, whatever
\* its role
NormalEnvelopeStampAll(res, d, cur, msgs) ==
    [id |-> res.id,
     content |-> res.content,
     reasoning |-> res.reasoning,
     aborted |-> res.aborted,
     messages |-> [i \in 1..Len(res.messages) |->
                     [res.messages[i] EXCEPT !.reasoning_content = res.reasoning]],
     data_content |-> IF d # <<>> THEN Stringify(d[1]) ELSE Undefined,
     reasoning_content |-> IF TruthyStr(res.reasoning) THEN res.reasoning ELSE Undefined,
     title |-> IF TruthyStr(cur) THEN cur ELSE Substring20(LastContent(msgs))]

\* lines 250-260
NormalEnvelope(res, d, cur, msgs) ==
    [id |-> res.id,
     content |-> res.content,
     reasoning |-> res.reasoning,
     aborted |-> res.aborted,
     messages |-> [i \in 1..Len(res.messages) |->
                     [res.messages[i] EXCEPT !.reasoning_content =
                        IF res.messages[i].role = "assistant" THEN res.reasoning
                        ELSE Undefined]],
     data_content |-> IF d # <<>> THEN Stringify(d[1]) ELSE Undefined,
     reasoning_content |-> IF TruthyStr(res.reasoning) THEN res.reasoning ELSE Undefined,
     title |-> IF TruthyStr(cur) THEN cur ELSE Substring20(LastContent(msgs))]

\* the catch of lines 235-247, then the return of lines 249-260
AfterWriteError(e) ==
    IF IsForeignKeyError(e)
    THEN Return(NormalEnvelope(result, data, currentTitle, messages))
    ELSE OuterCatch(e)

PersistAndReturn ==
    /\ pc = "persist"
    /\ \/ /\ msgRows' = MsgRowsAfter(2, msgRows, conversationId, messages,
                                     result, collectionId)
          /\ retrRows' = RetrRowsAfter(NumWrites(data), retrRows, msgRows, data)
          /\ calls' = calls \o SubSeq(WriteNames, 1, NumWrites(data))
          /\ Return(NormalEnvelope(result, data, currentTitle, messages))
          /\ UNCHANGED failure
       \/ \E k \in 1..NumWrites(data), e \in DbErrors :
            \* write k raises e: the writes before it stand
            /\ msgRows' = MsgRowsAfter(k - 1, msgRows, conversationId, messages,
                                       result, collectionId)
            /\ retrRows' = retrRows
            /\ calls' = calls \o SubSeq(WriteNames, 1, k)
            /\ failure' = <<[fn |-> WriteNames[k], error |-> e, write |-> k]>>
            /\ AfterWriteError(e)
    /\ UNCHANGED <<pairVars, agentVars, inputs, settingsRead, conversationId, signal, currentTitle, userSettings,
                   collectionName, vectorstoreData, data, generatedTitle,
                   storedTitle, prompt, provider, providerArgs, result, convRows>>

Next ==
    \/ GetUserSettings
    \/ GenerateTitle
    \/ GetCollectionName
    \/ VectorstoreQuery
    \/ GetUserConversationTitle
    \/ AddUserConversation
    \/ GetUserPrompt
    \/ SelectProvider
    \/ InvokeProvider
    \/ Cancel
    \/ ProviderSettle
    \/ PersistAndReturn

Spec == Init /\ [][Next]_vars

(***************************************************************************)
(* anthropicAgent, lines 286-383.  JSON values as JSON.parse builds them   *)
(* from the texts the backend may send: objects whose members are strings  *)
(* and non-negative integers, strings, integers.  Escape sequences do not  *)
(* occur in these texts.                                                   *)
(***************************************************************************)
JNum(n) == [t |-> "number", n |-> n, s |-> ""]
JStr(x) == [t |-> "string", n |-> 0, s |-> x]

\* s[i], "" outside the string
Ch(s, i) == IF i >= 1 /\ i <= Len(s) THEN SubSeq(s, i, i) ELSE ""

Whitespace == {" ", "\n", "\t", "\r"}

Digits == <<"0", "1", "2", "3", "4", "5", "6", "7", "8", "9">>

IsDigit(c) == \E i \in 1..Len(Digits) : Digits[i] = c

DigitValue(c) == (CHOOSE i \in 1..Len(Digits) : Digits[i] = c) - 1

\* the first index from i on that holds no whitespace
RECURSIVE SkipWs(_, _)
SkipWs(s, i) == IF Ch(s, i) \in Whitespace THEN SkipWs(s, i + 1) ELSE i

RECURSIVE TrimEnd(_)
TrimEnd(s) ==
    IF Ch(s, Len(s)) \in Whitespace THEN TrimEnd(SubSeq(s, 1, Len(s) - 1)) ELSE s

\* s.trim()
Trim(s) == TrimEnd(SubSeq(s, SkipWs(s, 1), Len(s)))

\* the index of the first quote from i on, 0 if there is none
RECURSIVE StringEnd(_, _)
StringEnd(s, i) ==
    IF i > Len(s) THEN 0 ELSE IF Ch(s, i) = "\"" THEN i ELSE StringEnd(s, i + 1)

\* the first index from i on that holds no digit
RECURSIVE NumberEnd(_, _)
NumberEnd(s, i) == IF IsDigit(Ch(s, i)) THEN NumberEnd(s, i + 1) ELSE i

RECURSIVE NumberValue(_)
NumberValue(d) ==
    IF d = "" THEN 0
    ELSE 10 * NumberValue(SubSeq(d, 1, Len(d) - 1)) + DigitValue(Ch(d, Len(d)))

NoValue == [ok |-> FALSE, next |-> 0, val |-> JNum(0)]

\* the string or number that starts at index i, and the index after it
ParseValue(s, i) ==
    IF Ch(s, i) = "\""
    THEN LET j == StringEnd(s, i + 1)
         IN  IF j = 0 THEN NoValue
             ELSE [ok |-> TRUE, next |-> j + 1, val |-> JStr(SubSeq(s, i + 1, j - 1))]
    ELSE IF IsDigit(Ch(s, i))
    THEN LET j == NumberEnd(s, i)
         IN  IF Ch(s, i) = "0" /\ j > i + 1 THEN NoValue
             ELSE [ok |-> TRUE, next |-> j,
                   val |-> JNum(NumberValue(SubSeq(s, i, j - 1)))]
    ELSE NoValue

NoMembers == [ok |-> FALSE, next |-> 0, members |-> <<>>]

\* the members "key": value, ... from index i up to the closing brace
RECURSIVE ParseMembers(_, _, _)
ParseMembers(s, i, acc) ==
    LET k == ParseValue(s, i)
        c == SkipWs(s, k.next)
        v == ParseValue(s, SkipWs(s, c + 1))
        e == SkipWs(s, v.next)
        ms == Append(acc, [key |-> k.val.s, value |-> v.val])
    IN  IF ~k.ok \/ k.val.t # "string" \/ Ch(s, c) # ":" \/ ~v.ok THEN NoMembers
        ELSE IF Ch(s, e) = "}" THEN [ok |-> TRUE, next |-> e + 1, members |-> ms]
        ELSE IF Ch(s, e) = "," THEN ParseMembers(s, SkipWs(s, e + 1), ms)
        ELSE NoMembers

\* JSON.parse raised a SyntaxError
SyntaxError == [kind |-> "SyntaxError", members |-> <<>>, value |-> JNum(0)]

\* JsonParse that reads the first object of the text and ignores what
\* precedes it
RECURSIVE JsonParseLenient(_)
JsonParseLenient(s) ==
    IF s = "" THEN SyntaxError
    ELSE IF Ch(s, 1) # "{" THEN JsonParseLenient(SubSeq(s, 2, Len(s)))
    ELSE LET j == SkipWs(s, 2)
             m == IF Ch(s, j) = "}"
                  THEN [ok |-> TRUE, next |-> j + 1, members |-> <<>>]
                  ELSE ParseMembers(s, j, <<>>)
         IN  IF m.ok THEN [kind |-> "object", members |-> m.members, value |-> JNum(0)]
             ELSE SyntaxError

\* JSON.parse(s): the whole text must be one value
JsonParse(s) ==
    LET i == SkipWs(s, 1)
    IN  IF Ch(s, i) = "{"
        THEN LET j == SkipWs(s, i + 1)
                 m == IF Ch(s, j) = "}"
                      THEN [ok |-> TRUE, next |-> j + 1, members |-> <<>>]
                      ELSE ParseMembers(s, j, <<>>)
             IN  IF m.ok /\ SkipWs(s, m.next) = Len(s) + 1
                 THEN [kind |-> "object", members |-> m.members, value |-> JNum(0)]
                 ELSE SyntaxError
        ELSE LET v == ParseValue(s, i)
             IN  IF v.ok /\ SkipWs(s, v.next) = Len(s) + 1
                 THEN [kind |-> v.val.t, members |-> <<>>, value |-> v.val]
                 ELSE SyntaxError

\* "k" in o
HasKey(o, k) == \E i \in 1..Len(o.members) : o.members[i].key = k

\* o[k]: the last member named k
Get(o, k) ==
    o.members[CHOOSE i \in 1..Len(o.members) :
                 /\ o.members[i].key = k
                 /\ \A j \in (i + 1)..Len(o.members) : o.members[j].key # k].value

\* lines 330-333: AgentActions.parse(v) does not raise
AgentActionsAccepts(v) ==
    /\ v.kind = "object"
    /\ HasKey(v, "webUrl")
    /\ Get(v, "webUrl").t = "number"
    /\ HasKey(v, "url")
    /\ Get(v, "url").t = "string"

\* lines 330-333: what AgentActions.parse(v) returns; z.object drops the keys
\* the schema does not name
AgentActionsParse(v) == [webUrl |-> Get(v, "webUrl").n, url |-> Get(v, "url").s]

\* lines 350-352: the decision used when the response cannot be read
FallbackActions == [webUrl |-> 0, url |-> ""]

\* lines 346-353: the decision read from the response; an empty content
\* makes response.content[0].type raise inside the try
Decide(resp) ==
    IF resp.content = <<>> THEN FallbackActions
    ELSE LET responseText == IF resp.content[1].type = "text"
                             THEN resp.content[1].text ELSE ""
             parsed == JsonParse(Trim(responseText))
         IN  IF AgentActionsAccepts(parsed) THEN AgentActionsParse(parsed)
             ELSE FallbackActions

\* line 356
ShouldFetch(a) == a.webUrl = 1 /\ a.url # ""

NoSearchContent == "No web search was needed or the search failed"

\* lines 375-380
FinalResponse(a, wsr) ==
    [content |-> IF wsr # <<>> THEN "Retrieved content from: " \o a.url
                 ELSE NoSearchContent,
     webSearchResult |-> wsr]

\* the texts of the notices: lines 307, 361-364, 367-370
AgentNotice == "[Agent]: "
VisitingNotice(url) == "[REASONING]: Visiting website: " \o url \o "\n"
FailedNotice(url) == "[REASONING]: Failed to visit website: " \o url \o "\n"

\* sendMessageChunk(text, mainWindow) delivered the chunk, or raised
Sent(log, text) == Append(log, [text |-> text, delivered |-> TRUE])
NotSent(log, text) == Append(log, [text |-> text, delivered |-> FALSE])

\* what a raising sendMessageChunk raises: the window is gone
DeliveryError == MkError("TypeError", "Object has been destroyed", "")

\* lines 339-342
MapRoles(msgs) ==
    [i \in 1..Len(msgs) |->
        [role |-> IF msgs[i].role = "assistant" THEN "assistant" ELSE "user",
         content |-> msgs[i].content]]

\* lines 308-310, the first sentence of the system prompt
SysPrompt ==
    "You are an AI Agent with the ability to visit websites and extract text and metadata."

\* lines 335-343
CreateRequest(msgs, limit) ==
    [model |-> "claude-3-sonnet-20240229", max_tokens |-> limit,
     system |-> SysPrompt, messages |-> MapRoles(msgs)]

\* lines 295-305: what webSearch resolves with for a page it could fetch
Page(url) ==
    [metadata |-> [title |-> "Example Domain", source |-> url, description |-> "",
                   author |-> "", keywords |-> "", ogImage |-> ""],
     textContent |-> "This domain is for use in illustrative examples."]

(***************************************************************************)
(* The inputs of anthropicAgent and what its backend may answer.           *)
(***************************************************************************)
AgentRoles == {"user", "assistant", "system"}

AgentHistories ==
    UNION {{[i \in 1..n |-> [role |-> f[i], content |-> "What is on example.com?"]] :
               f \in [1..n -> AgentRoles]} : n \in 1..MaxMsgs}

TokenLimits == {256, 1024}

ExactFetch == "{\"webUrl\":1,\"url\":\"https://example.com\"}"
PaddedFetch == "  {\n  \"webUrl\": 1,\n  \"url\": \"https://example.com\"\n}\n"
ExactNoFetch == "{\"webUrl\":0,\"url\":\"\"}"
ProseThenJson == "Sure. " \o ExactFetch
NonJson == "I cannot browse the web."
MissingUrl == "{\"webUrl\":1}"
WrongTypes == "{\"webUrl\":\"1\",\"url\":\"https://example.com\"}"
WebUrlTwo == "{\"webUrl\":2,\"url\":\"https://example.com\"}"
ExtraKey == "{\"webUrl\":1,\"url\":\"https://example.com\",\"note\":\"x\"}"
FtpUrl == "{\"webUrl\":1,\"url\":\"ftp://example.com/file\"}"
RelativeUrl == "{\"webUrl\":1,\"url\":\"/docs/page\"}"
EmptyUrl == "{\"webUrl\":1,\"url\":\"\"}"

ResponseTexts ==
    {ExactFetch, PaddedFetch, ExactNoFetch, ProseThenJson, NonJson, "", MissingUrl,
     WrongTypes, WebUrlTwo, ExtraKey, FtpUrl, RelativeUrl, EmptyUrl}

TextBlock(t) == [type |-> "text", text |-> t]
ToolUseBlock == [type |-> "tool_use", text |-> ""]

\* what anthropic.messages.create may resolve with: no block, a block that
\* is not text, or one text block
BackendResponses ==
    {[content |-> <<>>], [content |-> <<ToolUseBlock>>]}
    \cup {[content |-> <<TextBlock(t)>>] : t \in ResponseTexts}

\* chatRequest has not been called
NoRequest ==
    /\ pc = "idle"
    /\ messages = <<>>
    /\ conversationId = Undef
    /\ argConversationId = Undef
    /\ title = Undefined
    /\ collectionId = Undef
    /\ signal = "absent"
    /\ platform = "linux"
    /\ currentTitle = Null
    /\ userSettings = NoSettings
    /\ settingsRead = NoSettings
    /\ collectionName = NoCollectionName
    /\ vectorstoreData = NoResponse
    /\ data = <<>>
    /\ generatedTitle = Undefined
    /\ storedTitle = Undefined
    /\ failure = <<>>
    /\ prompt = Undefined
    /\ provider = Undefined
    /\ providerArgs = NoArgs
    /\ result = NoResult
    /\ ret = NotReturned
    /\ caught = <<>>
    /\ calls = <<>>
    /\ convRows = <<>>
    /\ msgRows = <<>>
    /\ retrRows = <<>>

\* a call of anthropicAgent
AgentInit ==
    /\ NoRequest
    /\ PairIdle
    /\ agentPc = "start"
    /\ agentMessages \in AgentHistories
    /\ maxOutputTokens \in TokenLimits
    /\ createArgs = NoArgs
    /\ response = NoResponse
    /\ agentActions = NoResult
    /\ webSearchResult = <<>>
    /\ searchError = <<>>
    /\ chunks = <<>>
    /\ fetches = <<>>
    /\ agentRet = NotReturned
    /\ agentThrown = <<>>

\* return finalResponse, line 382
AgentReturn(v) ==
    /\ agentPc' = "returned"
    /\ agentRet' = v
    /\ UNCHANGED agentThrown

\* an error that leaves anthropicAgent: the promise rejects
AgentReject(e) ==
    /\ agentPc' = "rejected"
    /\ agentThrown' = <<e>>
    /\ UNCHANGED agentRet

(***************************************************************************)
(* Lines 307-343: the "[Agent]: " notice, outside any try, then the        *)
(* request to the backend.                                                 *)
(***************************************************************************)
AgentStart ==
    /\ agentPc = "start"
    /\ \/ /\ chunks' = NotSent(chunks, AgentNotice)
          /\ AgentReject(DeliveryError)
          /\ UNCHANGED createArgs
       \/ /\ chunks' = Sent(chunks, AgentNotice)
          /\ createArgs' = CreateRequest(agentMessages, maxOutputTokens)
          /\ agentPc' = "create"
          /\ UNCHANGED <<agentRet, agentThrown>>
    /\ UNCHANGED <<pairVars, chatVars, agentMessages, maxOutputTokens, response, agentActions,
                   webSearchResult, searchError, fetches>>

(***************************************************************************)
(* Lines 335-358 and 374-382: the backend answers or raises (no try        *)
(* around the await); the decision is read; webSearch is called, or the    *)
(* function returns with no search.                                        *)
(***************************************************************************)
AgentCreateSettle ==
    /\ agentPc = "create"
    /\ \/ \E e \in CollabErrors :
            /\ AgentReject(e)
            /\ UNCHANGED <<response, agentActions, fetches>>
       \/ \E r \in BackendResponses :
            /\ response' = r
            /\ agentActions' = Decide(r)
            /\ \/ /\ ShouldFetch(agentActions')
                  /\ fetches' = Append(fetches, agentActions'.url)
                  /\ agentPc' = "webSearch"
                  /\ UNCHANGED <<agentRet, agentThrown>>
               \/ /\ ~ShouldFetch(agentActions')
                  /\ AgentReturn(FinalResponse(agentActions', <<>>))
                  /\ UNCHANGED fetches
    /\ UNCHANGED <<pairVars, chatVars, agentMessages, maxOutputTokens, createArgs,
                   webSearchResult, searchError, chunks>>

(***************************************************************************)
(* Lines 357-382: webSearch resolves or raises; the visiting notice is     *)
(* sent inside the try, after the assignment of webSearchResult; the       *)
(* failure notice is sent inside the catch.                                *)
(***************************************************************************)
AgentWebSearchSettle ==
    /\ agentPc = "webSearch"
    /\ \/ /\ webSearchResult' = <<Page(agentActions.url)>>
          /\ UNCHANGED searchError
          /\ \/ /\ chunks' = Sent(chunks, VisitingNotice(agentActions.url))
                /\ AgentReturn(FinalResponse(agentActions, webSearchResult'))
             \/ /\ chunks' = Sent(NotSent(chunks, VisitingNotice(agentActions.url)),
                                  FailedNotice(agentActions.url))
                /\ AgentReturn(FinalResponse(agentActions, webSearchResult'))
             \/ /\ chunks' = NotSent(NotSent(chunks, VisitingNotice(agentActions.url)),
                                     FailedNotice(agentActions.url))
                /\ AgentReject(DeliveryError)
       \/ \E e \in CollabErrors :
            /\ searchError' = <<e>>
            /\ UNCHANGED webSearchResult
            /\ \/ /\ chunks' = Sent(chunks, FailedNotice(agentActions.url))
                  /\ AgentReturn(FinalResponse(agentActions, <<>>))
               \/ /\ chunks' = NotSent(chunks, FailedNotice(agentActions.url))
                  /\ AgentReject(DeliveryError)
    /\ UNCHANGED <<pairVars, chatVars, agentMessages, maxOutputTokens, createArgs, response,
                   agentActions, fetches>>

AgentNext ==
    \/ AgentStart
    \/ AgentCreateSettle
    \/ AgentWebSearchSettle

AgentSpec == AgentInit /\ [][AgentNext]_vars

(***************************************************************************)
(* Two chatRequest calls in flight over one database.  Each call runs the  *)
(* steps of lines 33-277 on its own parameters and locals (reqs[r]); a     *)
(* call may be suspended at each await, where the other call may run.  The *)
(* collaborators answer from smaller sets than in Spec.                    *)
(***************************************************************************)
Requests == {1, 2}

PairErrors == {MkError("Error", "connect ECONNREFUSED 127.0.0.1:47372", "ECONNREFUSED")}

PairDbErrors ==
    {ForeignKeyError, MkError("SqliteError", "database is locked", "SQLITE_BUSY")}

PairSettings ==
    {[provider |-> p, model |-> "gpt-4o", promptId |-> Num(1), temperature |-> Num(7)] :
        p \in {"OpenAI", "bogus"}}

PairQueryResponses ==
    {[status |-> "error", message |-> "Unauthorized"],
     [status |-> "success", results |-> StoreResults(MaxResults)]}

\* the parameters and locals of a call at its start
PairRequest(msgs, conv, coll) ==
    [pc |-> "start", messages |-> msgs, conversationId |-> conv,
     argConversationId |-> conv, title |-> Undefined, collectionId |-> coll,
     currentTitle |-> Null, userSettings |-> NoSettings,
     collectionName |-> NoCollectionName, data |-> <<>>, prompt |-> Undefined,
     providerArgs |-> NoArgs, result |-> NoResult, assistantMessageId |-> 0,
     written |-> 0, ret |-> NotReturned]

PairInit ==
    /\ NoRequest
    /\ AgentIdle
    /\ \E c1, c2 \in {Undef, Num(7)}, k1, k2 \in InputCollectionIds :
          reqs = <<PairRequest(<<Msg("user", "Hi there")>>, c1, k1),
                   PairRequest(<<Msg("user", LongText)>>, c2, k2)>>
    /\ db = [convs |-> <<>>, msgs |-> <<>>, retr |-> <<>>]
    /\ writeLog = <<>>

\* call r continues with the locals q
Upd(r, q) == reqs' = [reqs EXCEPT ![r] = q]

\* the outer catch of lines 261-276
Caught(q, e) == [q EXCEPT !.pc = "done", !.ret = GenericEnvelope(q.messages, e)]

\* a return from inside the try block
Returned(q, envelope) == [q EXCEPT !.pc = "done", !.ret = envelope]

\* lines 51-52
PairGetUserSettings(r) ==
    LET q == [reqs[r] EXCEPT !.currentTitle = TitleOrNull(reqs[r].title)]
    IN  /\ reqs[r].pc = "start"
        /\ \/ \E e \in PairErrors : Upd(r, Caught(q, e))
           \/ \E s \in PairSettings :
                Upd(r, [q EXCEPT !.userSettings = s,
                                 !.pc = PcAfterSettings(q.conversationId, q.currentTitle,
                                                        q.collectionId)])
        /\ UNCHANGED <<chatVars, agentVars, db, writeLog>>

\* lines 53-59
PairGenerateTitle(r) ==
    LET q == reqs[r]
    IN  /\ q.pc = "generateTitle"
        /\ \/ \E e \in PairErrors : Upd(r, Caught(q, e))
           \/ \E t \in GeneratedTitles :
                Upd(r, [q EXCEPT !.currentTitle = t,
                                 !.pc = PcAfterTitle(q.conversationId, t, q.collectionId)])
        /\ UNCHANGED <<chatVars, agentVars, db, writeLog>>

\* lines 68-70
PairGetCollectionName(r) ==
    LET q == reqs[r]
    IN  /\ q.pc = "getCollectionName"
        /\ \/ \E e \in PairErrors : Upd(r, Caught(q, e))
           \/ \E c \in {NoCollectionName, [found |-> TRUE, name |-> "docs"]} :
                Upd(r, [q EXCEPT !.collectionName = c, !.pc = "vectorstoreQuery"])
        /\ UNCHANGED <<chatVars, agentVars, db, writeLog>>

\* lines 71-127
PairVectorstoreQuery(r) ==
    LET q == reqs[r]
    IN  /\ q.pc = "vectorstoreQuery"
        /\ \/ /\ ~q.collectionName.found
              /\ Upd(r, Returned(q, VectorstoreErrorEnvelope(q.messages,
                                                             TypeErrorOf("name"))))
           \/ /\ q.collectionName.found
              /\ \/ \E e \in PairErrors :
                      Upd(r, Returned(q, VectorstoreErrorEnvelope(q.messages, e)))
                 \/ \E resp \in PairQueryResponses :
                      Upd(r, IF IsUnauthorized(resp)
                             THEN Returned(q, UnauthorizedEnvelope(q.messages, platform))
                             ELSE IF ~HasResults(resp)
                             THEN Returned(q, VectorstoreErrorEnvelope(
                                                 q.messages, TypeErrorOf("length")))
                             ELSE [q EXCEPT !.data = <<MkData(resp)>>,
                                            !.pc = PcAfterRetrieval(q.conversationId,
                                                                    q.currentTitle)])
        /\ UNCHANGED <<chatVars, agentVars, db, writeLog>>

\* lines 130-135
PairGetUserConversationTitle(r) ==
    LET q == reqs[r]
    IN  /\ q.pc = "getUserConversationTitle"
        /\ \/ \E e \in PairErrors : Upd(r, Caught(q, e))
           \/ \E t \in StoredTitles(ToNumber(q.conversationId)) :
                Upd(r, [q EXCEPT !.currentTitle = t,
                                 !.pc = PcAfterTitleLookup(q.conversationId)])
        /\ UNCHANGED <<chatVars, agentVars, db, writeLog>>

\* lines 137-143: the database assigns the next free id
PairAddUserConversation(r) ==
    LET q == reqs[r]
        id == NewConvId + Len(db.convs)
    IN  /\ q.pc = "addUserConversation"
        /\ \/ /\ \E e \in PairErrors : Upd(r, Caught(q, e))
              /\ UNCHANGED db
           \/ /\ db' = [db EXCEPT !.convs =
                           Append(@, [id |-> id, title |-> q.currentTitle,
                                      owner |-> activeUser.id])]
              /\ Upd(r, [q EXCEPT !.conversationId = Num(id), !.pc = "getUserPrompt"])
        /\ UNCHANGED <<chatVars, agentVars, writeLog>>

\* lines 145-155
PairGetUserPrompt(r) ==
    LET q == reqs[r]
    IN  /\ q.pc = "getUserPrompt"
        /\ \/ \E e \in PairErrors : Upd(r, Caught(q, e))
           \/ Upd(r, [q EXCEPT !.prompt = DefaultPrompt, !.pc = "selectProvider"])
        /\ UNCHANGED <<chatVars, agentVars, db, writeLog>>

\* lines 156-192
PairSelectProvider(r) ==
    LET q == reqs[r]
    IN  /\ q.pc = "selectProvider"
        /\ Upd(r, IF ProviderKey(q.userSettings) \in RegisteredKeys
                  THEN [q EXCEPT !.pc = "invokeProvider"]
                  ELSE Caught(q, NoProviderError))
        /\ UNCHANGED <<chatVars, agentVars, db, writeLog>>

\* lines 193-210
PairInvokeProvider(r) ==
    LET q == reqs[r]
        cur == FallbackTitle(q.currentTitle, q.messages)
        settings == WithTemperature(q.userSettings)
    IN  /\ q.pc = "invokeProvider"
        /\ Upd(r, [q EXCEPT !.currentTitle = cur,
                            !.userSettings = settings,
                            !.providerArgs =
                               [messages |-> q.messages, activeUser |-> activeUser,
                                userSettings |-> settings, prompt |-> q.prompt,
                                conversationId |-> q.conversationId, title |-> cur,
                                collectionId |-> ToNumber(q.collectionId),
                                data |-> q.data, signal |-> "absent"],
                            !.pc = "inflight"])
        /\ UNCHANGED <<chatVars, agentVars, db, writeLog>>

\* the adapter settles: it raises, or answers in full
PairProviderSettle(r) ==
    LET q == reqs[r]
    IN  /\ q.pc = "inflight"
        /\ \/ \E e \in PairErrors : Upd(r, Caught(q, e))
           \/ Upd(r, [q EXCEPT !.result = ProviderResponse(q.providerArgs, FullAnswer,
                                                           Undefined, FALSE),
                               !.pc = "persist"])
        /\ UNCHANGED <<chatVars, agentVars, db, writeLog>>

\* WritesInOneStep of a block that yields to the other call after each write
WritesInOneStepYielding(n) == 1

\* lines 211-233 hold no await: a call that entered the block makes all n
\* writes of the block before any other call runs
WritesInOneStep(n) == n

\* write k of the block, by a call with locals q on database d
DoWrite(d, q, k) ==
    IF k = 1
    THEN [db |-> [d EXCEPT !.msgs = Append(@, UserRow(d.msgs, q.conversationId,
                                                     q.messages))],
          q |-> q, table |-> "msgs", id |-> Len(d.msgs) + 1]
    ELSE IF k = 2
    THEN [db |-> [d EXCEPT !.msgs = Append(@, AssistantRow(d.msgs, q.conversationId,
                                                          q.result, q.collectionId))],
          q |-> [q EXCEPT !.assistantMessageId = Len(d.msgs) + 1],
          table |-> "msgs", id |-> Len(d.msgs) + 1]
    ELSE [db |-> [d EXCEPT !.retr = Append(@, RetrievedRow(q.assistantMessageId,
                                                          q.data[1]))],
          q |-> q, table |-> "retr", id |-> Len(d.retr) + 1]

\* the writes k..to of the block by call r, from the state st = [db, q, log]
RECURSIVE DoWrites(_, _, _, _)
DoWrites(st, r, k, to) ==
    IF k > to THEN st
    ELSE LET w == DoWrite(st.db, st.q, k)
         IN  DoWrites([db |-> w.db,
                       q |-> [w.q EXCEPT !.written = k],
                       log |-> Append(st.log, [req |-> r, table |-> w.table,
                                               id |-> w.id])],
                      r, k + 1, to)

\* lines 211-260
PairPersistAndReturn(r) ==
    LET q == reqs[r]
        n == NumWrites(q.data)
        to == Min(n, q.written + WritesInOneStep(n))
        st0 == [db |-> db, q |-> q, log |-> writeLog]
        envelope == NormalEnvelope(q.result, q.data, q.currentTitle, q.messages)
    IN  /\ q.pc = "persist"
        /\ \/ LET st == DoWrites(st0, r, q.written + 1, to)
              IN  /\ db' = st.db
                  /\ writeLog' = st.log
                  /\ Upd(r, IF to = n THEN Returned(st.q, envelope) ELSE st.q)
           \/ \E k \in (q.written + 1)..to, e \in PairDbErrors :
                LET st == DoWrites(st0, r, q.written + 1, k - 1)
                IN  /\ db' = st.db
                    /\ writeLog' = st.log
                    /\ Upd(r, IF IsForeignKeyError(e) THEN Returned(st.q, envelope)
                              ELSE Caught(st.q, e))
        /\ UNCHANGED <<chatVars, agentVars>>

PairNext ==
    \E r \in Requests :
        \/ PairGetUserSettings(r)
        \/ PairGenerateTitle(r)
        \/ PairGetCollectionName(r)
        \/ PairVectorstoreQuery(r)
        \/ PairGetUserConversationTitle(r)
        \/ PairAddUserConversation(r)
        \/ PairGetUserPrompt(r)
        \/ PairSelectProvider(r)
        \/ PairInvokeProvider(r)
        \/ PairProviderSettle(r)
        \/ PairPersistAndReturn(r)

PairSpec == PairInit /\ [][PairNext]_vars

(***************************************************************************)
(* Vocabulary of the properties.                                           *)
(***************************************************************************)
Called(fn) == \E i \in 1..Len(calls) : calls[i] = fn

\* the call of collaborator fn raised
Failed(fn) == failure # <<>> /\ failure[1].fn = fn

\* chatRequest returned the envelope of lines 250-260
IsNormal == pc = "done" /\ "aborted" \in DOMAIN ret

\* the envelope {id: -1, messages: [...messages, assistant content], title}
ErrorEnvelope(content, ttl) ==
    [id |-> -1, messages |-> Append(messages, Msg("assistant", content)), title |-> ttl]

\* the content of the last message of the returned envelope
ReturnedContent == ret.messages[Len(ret.messages)].content

\* getUserSettings resolved with settings whose provider key is not registered
UnrecognizedProvider ==
    /\ Called("getUserSettings")
    /\ ~Failed("getUserSettings")
    /\ (userSettings.provider \in {Null, Undefined}
        \/ LowerCase(userSettings.provider) \notin RegisteredKeys)

\* the retrieval step ran (the collection name lookup resolved) and ended the
\* request without retrieval data
RetrievalShortCircuit ==
    /\ pc = "done"
    /\ Called("getCollectionName")
    /\ ~Failed("getCollectionName")
    /\ data = <<>>

(***************************************************************************)
(* C1 as stated: every request whose settings carry an unrecognized        *)
(* provider key ends in the generic envelope (id -1, "Need API Key", the   *)
(* input messages plus the fixed generic assistant message), with no       *)
(* adapter call and no turn recorded.                                      *)
(***************************************************************************)
C1_Original ==
    (pc = "done" /\ UnrecognizedProvider) =>
        /\ ret = ErrorEnvelope(GenericContent, "Need API Key")
        /\ ~Called("provider")
        /\ msgRows = <<>>

(***************************************************************************)
(* C1 amended: with an unrecognized provider key the envelope has id -1,   *)
(* no adapter is invoked and no turn is recorded; it is the generic        *)
(* envelope unless the retrieval step ended the request first with its own *)
(* error envelope.                                                         *)
(***************************************************************************)
C1_UnrecognizedProvider ==
    (pc = "done" /\ UnrecognizedProvider) =>
        /\ ret.id = -1
        /\ ~Called("provider")
        /\ msgRows = <<>>
        /\ ~RetrievalShortCircuit => ret = ErrorEnvelope(GenericContent, "Need API Key")

\* the switch reached its default branch with the key "bogus"
C1_Witness ==
    /\ pc = "done"
    /\ userSettings.provider = "bogus"
    /\ caught = <<NoProviderError>>
    /\ ret = ErrorEnvelope(GenericContent, "Need API Key")

(***************************************************************************)
(* C2: when the vector store query resolves with status "error" and        *)
(* message "Unauthorized", the result is id -1, title "Need API Key", the  *)
(* input messages plus one assistant message holding the remediation       *)
(* steps; no conversation row is created, no adapter is invoked and        *)
(* nothing is persisted.                                                   *)
(***************************************************************************)
C2_Unauthorized ==
    (vectorstoreData.status = "error" /\ vectorstoreData.message = "Unauthorized") =>
        /\ pc = "done"
        /\ ret = ErrorEnvelope(RemediationContent(platform), "Need API Key")
        /\ Includes(ReturnedContent, "1. Restart your PC")
        /\ Includes(ReturnedContent, LogPath(platform))
        /\ ~Called("addUserConversation")
        /\ ~Called("provider")
        /\ convRows = <<>> /\ msgRows = <<>> /\ retrRows = <<>>

\* the query was made for a set collectionId and reported Unauthorized
C2_Witness ==
    /\ pc = "done"
    /\ TruthyNum(collectionId)
    /\ Called("vectorstoreQuery")
    /\ vectorstoreData.status = "error"
    /\ vectorstoreData.message = "Unauthorized"
    /\ platform = "win32"

(***************************************************************************)
(* C3 as stated: when the retrieval call reports a generic error, by       *)
(* raising or by resolving with {status: "error", message} with a message  *)
(* other than "Unauthorized", the result has id -1, title "Error in        *)
(* vectorstore query" and an assistant message whose content includes the  *)
(* error detail the retrieval call reported; the adapter is not invoked.   *)
(***************************************************************************)
C3_Claim ==
    /\ (pc = "done" /\ Failed("vectorstoreQuery")) =>
          /\ ret.id = -1
          /\ ret.title = "Error in vectorstore query"
          /\ Includes(ReturnedContent, ErrToString(failure[1].error))
          /\ ~Called("provider")
    /\ (pc = "done" /\ vectorstoreData.status = "error"
           /\ vectorstoreData.message # "Unauthorized") =>
          /\ ret.id = -1
          /\ ret.title = "Error in vectorstore query"
          /\ Includes(ReturnedContent, vectorstoreData.message)
          /\ ~Called("provider")

\* the part of C3 the code satisfies: a query that raises
C3_RaisedPart ==
    (pc = "done" /\ Failed("vectorstoreQuery")) =>
        /\ ret = ErrorEnvelope("Error in vectorstore query: "
                               \o ErrToString(failure[1].error),
                               "Error in vectorstore query")
        /\ ~Called("provider")

\* a persistence write raised
WriteFailed == failure # <<>> /\ "write" \in DOMAIN failure[1]

(***************************************************************************)
(* C4: when one of the three persistence writes fails with the foreign-key *)
(* constraint error, chatRequest returns the normal envelope of the        *)
(* adapter; when a write fails with any other error, the error reaches the *)
(* outer catch and the result is the generic error envelope.               *)
(***************************************************************************)
C4_IdempotentPersistence ==
    (pc = "done" /\ WriteFailed) =>
        IF failure[1].error.code = "SQLITE_CONSTRAINT_FOREIGNKEY"
        THEN /\ caught = <<>>
             /\ IsNormal
             /\ ret.id = result.id
             /\ ret.content = result.content
             /\ ret.aborted = result.aborted
             /\ ret.title = providerArgs.title
             /\ Len(ret.messages) = Len(result.messages)
        ELSE /\ caught = <<failure[1].error>>
             /\ ret = ErrorEnvelope(GenericContent, "Need API Key")

\* the assistant write raised the foreign-key error and the envelope is normal
C4_Witness ==
    /\ pc = "done"
    /\ WriteFailed
    /\ failure[1].write = 2
    /\ failure[1].error = ForeignKeyError
    /\ IsNormal
    /\ ret.content = FullAnswer

(***************************************************************************)
(* C5: when the adapter returns aborted = true with partial content,       *)
(* chatRequest does not raise: the envelope it returns when no write fails *)
(* is normal and carries aborted = true, and the user turn and then the    *)
(* assistant turn holding the partial content are recorded.                *)
(***************************************************************************)
C5_Cancellation ==
    (pc = "done" /\ result # NoResult /\ result.aborted) =>
        /\ ret # NotReturned
        /\ IsNormal => (ret.aborted /\ ret.content = result.content)
        /\ ~WriteFailed =>
              /\ IsNormal
              /\ Len(msgRows) = 2
              /\ msgRows[1].role = "user"
              /\ msgRows[1].content = LastContent(messages)
              /\ msgRows[2].role = "assistant"
              /\ msgRows[2].content = result.content
              /\ msgRows[1].conversationId = providerArgs.conversationId
              /\ msgRows[2].conversationId = providerArgs.conversationId

\* the signal was idle when the adapter was invoked and fired before it settled
C5_Witness ==
    /\ pc = "done"
    /\ providerArgs # NoArgs
    /\ providerArgs.signal = "idle"
    /\ signal = "aborted"
    /\ result.aborted
    /\ result.content = "Entangled par"
    /\ IsNormal
    /\ ret.aborted
    /\ Len(msgRows) = 2
    /\ msgRows[2].content = "Entangled par"

\* no conversationId and no explicit title were passed
NoConversationNoTitle == ~TruthyNum(argConversationId) /\ ~TruthyStr(title)

\* generateTitle was called and resolved with an empty title
GeneratedNothing ==
    Called("generateTitle") /\ ~Failed("generateTitle") /\ ~TruthyStr(generatedTitle)

(***************************************************************************)
(* C6 as stated: with no conversationId and no explicit title, if the      *)
(* title generator fails or yields nothing and no stored title exists,     *)
(* the request completes normally (nothing else failing) and the final     *)
(* title is the first 20 characters of the latest user message.            *)
(***************************************************************************)
C6_Original ==
    (/\ pc = "done"
     /\ NoConversationNoTitle
     /\ (Failed("generateTitle") \/ GeneratedNothing)
     /\ ~TruthyStr(storedTitle)
     /\ (failure = <<>> \/ Failed("generateTitle"))
     /\ (caught = <<>> \/ Failed("generateTitle"))
     /\ ~RetrievalShortCircuit) =>
        /\ IsNormal
        /\ ret.title = SubSeq(LastContent(messages), 1, Min(20, Len(LastContent(messages))))

(***************************************************************************)
(* C6 amended: with no conversationId and no explicit title, if the title  *)
(* generator yields an empty title and no stored title exists, the request *)
(* completes normally when nothing else fails, and the title passed to the *)
(* adapter and returned is the first 20 characters of the latest user      *)
(* message; if the title generator raises, the result is the generic error *)
(* envelope with title "Need API Key".                                     *)
(***************************************************************************)
C6_TitleFallback ==
    /\ (/\ pc = "done"
        /\ NoConversationNoTitle
        /\ GeneratedNothing
        /\ ~TruthyStr(storedTitle)
        /\ failure = <<>>
        /\ caught = <<>>
        /\ ~RetrievalShortCircuit) =>
           /\ IsNormal
           /\ ret.title = SubSeq(LastContent(messages), 1,
                                 Min(20, Len(LastContent(messages))))
           /\ providerArgs.title = ret.title
           /\ LastContent(messages) = LongText => ret.title = "Explain quantum enta"
    /\ Failed("generateTitle") =>
           /\ pc = "done"
           /\ ret = ErrorEnvelope(GenericContent, "Need API Key")

\* the generator returned "", nothing was stored, the long message was truncated
C6_Witness ==
    /\ IsNormal
    /\ NoConversationNoTitle
    /\ GeneratedNothing
    /\ storedTitle = Null
    /\ LastContent(messages) = LongText
    /\ ret.title = "Explain quantum enta"

(***************************************************************************)
(* C7: an explicit title is the final title and the generator is not       *)
(* invoked; otherwise, with no conversationId, a non-empty result of the   *)
(* generator is the final title; otherwise the stored title of the         *)
(* existing conversation is used; the generator is invoked only when both  *)
(* conversationId and explicit title are absent.                           *)
(***************************************************************************)
C7_TitlePrecedence ==
    /\ TruthyStr(title) =>
          /\ ~Called("generateTitle")
          /\ providerArgs # NoArgs => providerArgs.title = title
          /\ IsNormal => ret.title = title
    /\ (~TruthyStr(title) /\ ~TruthyNum(argConversationId)
          /\ TruthyStr(generatedTitle)) =>
          /\ providerArgs # NoArgs => providerArgs.title = generatedTitle
          /\ IsNormal => ret.title = generatedTitle
    /\ (~TruthyStr(title) /\ TruthyNum(argConversationId) /\ TruthyStr(storedTitle)) =>
          /\ providerArgs # NoArgs => providerArgs.title = storedTitle
          /\ IsNormal => ret.title = storedTitle
    /\ Called("generateTitle") => NoConversationNoTitle

\* the generator's title of the spec's example reached the envelope
C7_Witness ==
    /\ IsNormal
    /\ NoConversationNoTitle
    /\ LastContent(messages) = LongText
    /\ generatedTitle = "Quantum Basics"
    /\ ret.title = "Quantum Basics"

(***************************************************************************)
(* C8: chatRequest always resolves with an envelope.  When the call of a   *)
(* collaborator other than the vector store query raises (settings lookup, *)
(* title generation, collection-name lookup, title lookup, conversation    *)
(* creation, prompt lookup, adapter, a persistence write with an error     *)
(* other than the foreign-key error), the result is id -1, title "Need API *)
(* Key" and one appended assistant message with the same fixed text,       *)
(* whatever the error: the error's text is not in the transcript.          *)
(***************************************************************************)
C8_CatchAll ==
    /\ pc = "done" => "id" \in DOMAIN ret
    /\ (/\ failure # <<>>
        /\ failure[1].fn # "vectorstoreQuery"
        /\ ~(WriteFailed /\ failure[1].error = ForeignKeyError)) =>
           /\ pc = "done"
           /\ ret = ErrorEnvelope(GenericContent, "Need API Key")
           /\ \A i \in 1..Len(ret.messages) :
                ~Includes(ret.messages[i].content, failure[1].error.message)

\* the adapter raised an error whose text names a credential
C8_Witness ==
    /\ pc = "done"
    /\ Failed("provider")
    /\ Includes(failure[1].error.message, "sk-secret")
    /\ ret = ErrorEnvelope(GenericContent, "Need API Key")

(***************************************************************************)
(* C9 as stated: whenever chatRequest returns a normal envelope whose      *)
(* data_content is set, the retrieval payload has been recorded via        *)
(* addRetrievedData against the id of the assistant turn written in the    *)
(* same request.                                                           *)
(***************************************************************************)
C9_Claim ==
    (IsNormal /\ ret.data_content # Undefined) =>
        \E i \in 1..Len(retrRows), j \in 1..Len(msgRows) :
            /\ msgRows[j].role = "assistant"
            /\ retrRows[i].messageId = msgRows[j].id
            /\ retrRows[i].data = ret.data_content

(***************************************************************************)
(* C10 as stated: whenever chatRequest returns an envelope with id -1, no  *)
(* conversation turn was persisted during the request.                     *)
(***************************************************************************)
C10_Original ==
    (pc = "done" /\ ret.id = -1) => msgRows = <<>>

(***************************************************************************)
(* C10 amended: an envelope with id -1 returned on a path that ended       *)
(* before the persistence step comes with no persisted turn; when a        *)
(* persistence write fails with an error other than the foreign-key error  *)
(* the envelope has id -1 and the writes before the failing one stand: the *)
(* user turn if the assistant write failed, both turns if the retrieval    *)
(* write failed.                                                           *)
(***************************************************************************)
C10_SentinelAndTurns ==
    (pc = "done" /\ ret.id = -1) =>
        IF WriteFailed
        THEN /\ Len(msgRows) = Min(failure[1].write - 1, 2)
             /\ Len(msgRows) >= 1 =>
                   (msgRows[1].role = "user"
                    /\ msgRows[1].content = LastContent(messages))
             /\ Len(msgRows) = 2 => msgRows[2].role = "assistant"
             /\ retrRows = <<>>
        ELSE msgRows = <<>> /\ retrRows = <<>>

\* the user turn was written, the assistant write raised, the envelope has id -1
C10_Witness ==
    /\ pc = "done"
    /\ ret.id = -1
    /\ WriteFailed
    /\ failure[1].write = 2
    /\ Len(msgRows) = 1
    /\ msgRows[1].role = "user"

\* the number of calls of the collaborator fn so far
CountCalls(fn) == Cardinality({i \in 1..Len(calls) : calls[i] = fn})

\* the position in calls of the first call of fn, 0 if there is none
FirstCall(fn) ==
    IF Called(fn) THEN CHOOSE i \in 1..Len(calls) :
                           calls[i] = fn /\ \A j \in 1..(i - 1) : calls[j] # fn
    ELSE 0

(***************************************************************************)
(* C11: whenever chatRequest returns an envelope with id -1, no            *)
(* conversation was created during the request, whichever step failed      *)
(* (unrecognized provider, prompt lookup, adapter, persistence).           *)
(***************************************************************************)
C11_Claim ==
    (pc = "done" /\ ret.id = -1) => convRows = <<>>

(***************************************************************************)
(* C12: top_k equals the number of elements of results wherever the        *)
(* retrieval result is held, passed to the adapter, persisted or           *)
(* serialized into data_content, for every size of the store's response,   *)
(* zero included.                                                          *)
(***************************************************************************)
C12_TopKIsCount ==
    /\ data # <<>> =>
          /\ data[1].results = vectorstoreData.results
          /\ data[1].top_k = Len(data[1].results)
    /\ (providerArgs # NoArgs /\ providerArgs.data # <<>>) =>
          providerArgs.data[1].top_k = Len(providerArgs.data[1].results)
    /\ \A i \in 1..Len(retrRows) :
          retrRows[i].data =
             Stringify([top_k |-> Len(vectorstoreData.results),
                        results |-> vectorstoreData.results])
    /\ (IsNormal /\ ret.data_content # Undefined) =>
          ret.data_content =
             Stringify([top_k |-> Len(vectorstoreData.results),
                        results |-> vectorstoreData.results])

\* the store returned no passage and the empty result was given to the
\* adapter, persisted and returned with top_k 0
C12_Witness ==
    /\ IsNormal
    /\ providerArgs.data # <<>>
    /\ vectorstoreData.results = <<>>
    /\ providerArgs.data[1].top_k = 0
    /\ Len(retrRows) = 1
    /\ ret.data_content = "{\"top_k\":0,\"results\":[]}"

(***************************************************************************)
(* C16: the adapter receives the temperature the user configured whenever  *)
(* one is configured, 0 included, and 0.5 only when none is configured.    *)
(***************************************************************************)
C16_Claim ==
    providerArgs # NoArgs =>
        providerArgs.userSettings.temperature =
            (IF settingsRead.temperature.tag = "number"
             THEN settingsRead.temperature
             ELSE Num(DefaultTemperature))

(***************************************************************************)
(* C17: within a request the user turn is written first, then the          *)
(* assistant turn, then (only with retrieval data) the retrieval payload,  *)
(* keyed by the id the assistant write returned; the payload is never      *)
(* written before or without the assistant turn; all writes carry the      *)
(* conversation id that was passed to the adapter.                         *)
(***************************************************************************)
C17_PersistenceOrder ==
    /\ Len(msgRows) <= 2
    /\ Len(msgRows) >= 1 => msgRows[1].role = "user"
    /\ Len(msgRows) = 2 =>
          (msgRows[2].role = "assistant" /\ msgRows[2].id > msgRows[1].id)
    /\ Len(retrRows) <= 1
    /\ retrRows # <<>> =>
          /\ data # <<>>
          /\ Len(msgRows) = 2
          /\ retrRows[1].messageId = msgRows[2].id
    /\ \A i \in 1..Len(msgRows) :
          msgRows[i].conversationId = providerArgs.conversationId
    /\ Called("addRetrievedData") =>
          /\ CountCalls("addUserMessage") = 2
          /\ \A i \in 1..Len(calls) :
                calls[i] = "addUserMessage" => i < FirstCall("addRetrievedData")
    /\ (IsNormal /\ ~WriteFailed /\ data # <<>>) => Len(retrRows) = 1

\* both turns and the retrieval payload were written, the payload under the
\* id of the assistant row
C17_Witness ==
    /\ IsNormal
    /\ Len(msgRows) = 2
    /\ Len(retrRows) = 1
    /\ msgRows[1].role = "user"
    /\ msgRows[2].role = "assistant"
    /\ retrRows[1].messageId = msgRows[2].id
    /\ msgRows[2].conversationId = providerArgs.conversationId

(***************************************************************************)
(* C18: the adapter is invoked at most once per request, only after        *)
(* retrieval succeeded when a collectionId is set, and only once a         *)
(* conversation id exists; turns are written only after the adapter        *)
(* returned; when the adapter raises no turn is recorded.                  *)
(***************************************************************************)
C18_StepOrdering ==
    /\ CountCalls("provider") <= 1
    /\ Called("provider") =>
          /\ TruthyNum(providerArgs.conversationId)
          /\ TruthyNum(collectionId) =>
                /\ vectorstoreData.status = "success"
                /\ data # <<>>
                /\ Called("vectorstoreQuery")
                /\ FirstCall("vectorstoreQuery") < FirstCall("provider")
    /\ Called("addUserMessage") =>
          /\ result # NoResult
          /\ Called("provider")
          /\ FirstCall("provider") < FirstCall("addUserMessage")
    /\ msgRows # <<>> => result # NoResult
    /\ Failed("provider") =>
          (msgRows = <<>> /\ retrRows = <<>> /\ ~Called("addUserMessage"))

\* retrieval ran, then the adapter was invoked with a conversation id and
\* raised: the request ended with nothing written
C18_Witness ==
    /\ pc = "done"
    /\ Failed("provider")
    /\ TruthyNum(collectionId)
    /\ data # <<>>
    /\ TruthyNum(providerArgs.conversationId)
    /\ msgRows = <<>>

(***************************************************************************)
(* C19: when a request creates a conversation, the title stored with it    *)
(* is the resolved title: non-empty whenever the latest user message is    *)
(* non-empty, and equal to the title passed to the adapter and to the      *)
(* title of the normal envelope.                                           *)
(***************************************************************************)
C19_Claim ==
    convRows # <<>> =>
        /\ TruthyStr(LastContent(messages)) => TruthyStr(convRows[1].title)
        /\ providerArgs # NoArgs => convRows[1].title = providerArgs.title
        /\ IsNormal => convRows[1].title = ret.title

(***************************************************************************)
(* C20: within a request a conversation is created at most once, and only  *)
(* when the caller supplied no conversationId; a supplied conversationId   *)
(* is never replaced; a newly assigned id stays the request's id.          *)
(***************************************************************************)
C20_CreatedOnce ==
    /\ CountCalls("addUserConversation") <= 1
    /\ Len(convRows) <= 1
    /\ Called("addUserConversation") => ~TruthyNum(argConversationId)
    /\ TruthyNum(argConversationId) =>
          /\ conversationId = argConversationId
          /\ providerArgs # NoArgs => providerArgs.conversationId = argConversationId
    /\ convRows # <<>> =>
          /\ conversationId = Num(convRows[1].id)
          /\ providerArgs # NoArgs => providerArgs.conversationId = conversationId
          /\ \A i \in 1..Len(msgRows) : msgRows[i].conversationId = conversationId

\* a request without conversationId completed under the id assigned by the
\* single creation
C20_Witness ==
    /\ IsNormal
    /\ ~TruthyNum(argConversationId)
    /\ CountCalls("addUserConversation") = 1
    /\ Len(convRows) = 1
    /\ conversationId = Num(NewConvId)
    /\ providerArgs.conversationId = Num(NewConvId)
    /\ Len(msgRows) = 2

(***************************************************************************)
(* Vocabulary of the properties of anthropicAgent.                         *)
(***************************************************************************)
\* the backend answered
Answered == response # NoResponse

\* the backend answered with the single text block t
AnswerIs(t) == Answered /\ response.content = <<TextBlock(t)>>

\* anthropicAgent returned the no-search result
ReturnedNoSearch ==
    /\ agentPc = "returned"
    /\ agentThrown = <<>>
    /\ agentRet = [content |-> NoSearchContent, webSearchResult |-> <<>>]

\* the failure notices handed to sendMessageChunk, and those delivered
FailedNotices ==
    {i \in 1..Len(chunks) : chunks[i].text = FailedNotice(agentActions.url)}

DeliveredFailedNotices == {i \in FailedNotices : chunks[i].delivered}

\* the texts from which no decision {webUrl: number, url: string} can be read
MalformedTexts == {ProseThenJson, NonJson, "", MissingUrl, WrongTypes}

(***************************************************************************)
(* C13: on a malformed decision (JSON preceded by prose, text that is not  *)
(* JSON, an empty content or a first block that is not text, a missing     *)
(* field) anthropicAgent does not raise: it uses {webUrl: 0, url: ""},     *)
(* fetches nothing and returns the no-search content with a null           *)
(* webSearchResult; on the exact JSON with webUrl 1 and a URL exactly one  *)
(* fetch is attempted, for that URL.                                       *)
(***************************************************************************)
C13_MalformedDecision ==
    /\ (Answered /\ (\/ response.content = <<>>
                     \/ response.content[1].type # "text"
                     \/ response.content[1].text \in MalformedTexts)) =>
          /\ agentActions = FallbackActions
          /\ fetches = <<>>
          /\ ReturnedNoSearch
    /\ AnswerIs(ExactFetch) => fetches = <<"https://example.com">>

\* the backend put prose before the JSON and the agent returned the
\* no-search result without a fetch
C13_Witness ==
    /\ AnswerIs(ProseThenJson)
    /\ agentActions = FallbackActions
    /\ fetches = <<>>
    /\ ReturnedNoSearch

(***************************************************************************)
(* C14: a fetch is attempted only when the backend's text is exactly an    *)
(* object with webUrl 1 and url an absolute http(s) URL; a webUrl outside  *)
(* {0, 1}, an extra key, webUrl 1 with a url that is relative or not       *)
(* http(s), and fields of the wrong type are all treated as                *)
(* {webUrl: 0, url: ""}: no fetch, the no-search result.                   *)
(***************************************************************************)
C14_Claim ==
    Answered =>
        /\ fetches # <<>> => (AnswerIs(ExactFetch) \/ AnswerIs(PaddedFetch))
        /\ (\E t \in {WebUrlTwo, ExtraKey, FtpUrl, RelativeUrl, WrongTypes} :
               AnswerIs(t)) =>
              (fetches = <<>> /\ ReturnedNoSearch)

(***************************************************************************)
(* C15: when the decision is webUrl 1 and the fetch of the URL fails,      *)
(* anthropicAgent does not raise: it returns the no-search content with a  *)
(* null webSearchResult and exactly one failure notice was pushed to the   *)
(* UI; the returned content is "Retrieved content from: <url>" if and only *)
(* if webSearchResult is not null.                                         *)
(***************************************************************************)
C15_Claim ==
    /\ searchError # <<>> =>
          /\ ReturnedNoSearch
          /\ Cardinality(FailedNotices) = 1
          /\ Cardinality(DeliveredFailedNotices) = 1
    /\ agentPc = "returned" =>
          (agentRet.content = "Retrieved content from: " \o agentActions.url
              <=> agentRet.webSearchResult # <<>>)

\* the part of C15 that holds: the same, for the calls in which every
\* sendMessageChunk delivered its chunk
C15_WhenDelivered ==
    (\A i \in 1..Len(chunks) : chunks[i].delivered) => C15_Claim

\* what anthropicAgent returns when every notice is delivered, given what
\* the backend and webSearch did
ResultWhenDelivered ==
    IF fetches # <<>> /\ searchError = <<>>
    THEN [content |-> "Retrieved content from: " \o fetches[1],
          webSearchResult |-> <<Page(fetches[1])>>]
    ELSE [content |-> NoSearchContent, webSearchResult |-> <<>>]

(***************************************************************************)
(* C21: when sendMessageChunk raises at one of its call sites in           *)
(* anthropicAgent (the "[Agent]: " notice, the visiting notice, the        *)
(* failure notice), anthropicAgent does not raise and returns the content  *)
(* and webSearchResult it returns when the notice is delivered.            *)
(***************************************************************************)
C21_Claim ==
    (\E i \in 1..Len(chunks) : ~chunks[i].delivered) =>
        /\ agentPc = "returned"
        /\ agentThrown = <<>>
        /\ agentRet = ResultWhenDelivered

(***************************************************************************)
(* C22: on the normal path the returned messages are the adapter's         *)
(* messages, in the same order and number; each message of role assistant  *)
(* carries the adapter's reasoning as reasoning_content and every other    *)
(* message carries none; data_content is present exactly when retrieval    *)
(* data was obtained and is its serialization; the title is the resolved   *)
(* title.                                                                  *)
(***************************************************************************)
C22_EnvelopeAssembly ==
    IsNormal =>
        /\ Len(ret.messages) = Len(result.messages)
        /\ \A i \in 1..Len(ret.messages) :
              /\ ret.messages[i].role = result.messages[i].role
              /\ ret.messages[i].content = result.messages[i].content
              /\ ret.messages[i].data_content = result.messages[i].data_content
              /\ ret.messages[i].reasoning_content =
                    (IF ret.messages[i].role = "assistant" THEN result.reasoning
                     ELSE Undefined)
        /\ ret.data_content # Undefined <=> data # <<>>
        /\ data # <<>> <=> (TruthyNum(collectionId) /\ HasResults(vectorstoreData))
        /\ data # <<>> =>
              ret.data_content =
                 Stringify([top_k |-> Len(vectorstoreData.results),
                            results |-> vectorstoreData.results])
        /\ ret.title = currentTitle
        /\ ret.title = providerArgs.title

\* a normal envelope with retrieval data and reasoning: the user's message
\* carries no reasoning, the assistant's carries the adapter's
C22_Witness ==
    /\ IsNormal
    /\ data # <<>>
    /\ ret.data_content # Undefined
    /\ TruthyStr(result.reasoning)
    /\ Len(ret.messages) = 2
    /\ ret.messages[1].role = "user"
    /\ ret.messages[1].reasoning_content = Undefined
    /\ ret.messages[2].role = "assistant"
    /\ ret.messages[2].reasoning_content = result.reasoning
    /\ ret.title = "Quantum Basics"

\* the positions in writeLog of the writes of call r
WritesOf(r) == {i \in 1..Len(writeLog) : writeLog[i].req = r}

\* call r was given no conversationId and has been assigned one
CreatedConversation(r) ==
    ~TruthyNum(reqs[r].argConversationId) /\ TruthyNum(reqs[r].conversationId)

(***************************************************************************)
(* C23: under every interleaving of two chatRequest calls in flight, the   *)
(* writes of one call (user turn, assistant turn, retrieval payload) are   *)
(* never interleaved with the writes of the other, and the turns of a call *)
(* are recorded only under the conversation id of that call.               *)
(***************************************************************************)
C23_NoInterleaving ==
    /\ \A i, j, k \in 1..Len(writeLog) :
          (i < j /\ j < k /\ writeLog[i].req = writeLog[k].req) =>
              writeLog[j].req = writeLog[i].req
    /\ \A i \in 1..Len(writeLog) :
          LET w == writeLog[i]
          IN  IF w.table = "msgs"
              THEN db.msgs[w.id].conversationId = ToNumber(reqs[w.req].conversationId)
              ELSE \E j \in WritesOf(w.req) :
                      /\ j < i
                      /\ writeLog[j].table = "msgs"
                      /\ writeLog[j].id = db.retr[w.id].messageId
                      /\ db.msgs[writeLog[j].id].role = "assistant"
    /\ \A r, t \in Requests :
          (r # t /\ CreatedConversation(r) /\ CreatedConversation(t)) =>
              reqs[r].conversationId # reqs[t].conversationId

\* both calls created a conversation, the first call first, and completed
\* normally with their three writes each, the second call writing first
C23_Witness ==
    /\ \A r \in Requests : reqs[r].pc = "done" /\ "aborted" \in DOMAIN reqs[r].ret
    /\ reqs[1].conversationId = Num(NewConvId)
    /\ reqs[2].conversationId = Num(NewConvId + 1)
    /\ Len(writeLog) = 6
    /\ writeLog[1].req = 2
    /\ writeLog[4].req = 1
    /\ db.msgs[1].conversationId = Num(NewConvId + 1)
    /\ db.msgs[3].conversationId = Num(NewConvId)

====
